---- MODULE Spec2Model ----
(***************************************************************************)
(* Model of emoji-logger (src/src/lib.rs): the format closure installed by *)
(* formatted_builder, its two process-wide atomics MAX_MODULE_WIDTH and    *)
(* SINCE_WIDTH_INCREASE, and the init / try_init entry points.             *)
(*                                                                         *)
(* Text is a sequence of characters, each character a short string; a      *)
(* character outside ASCII is written by its code point ("U+00E9") and     *)
(* Utf8Len gives its encoded length in bytes.                              *)
(***************************************************************************)
EXTENDS Integers, Sequences, FiniteSets, TLC

\* ------------------------------------------------------------------ bounds
\* Longest target path, in characters, the formatting specification draws.
MaxTargetLen == 7
\* Longest message, in characters, the formatting specification draws.
MaxMsgLen == 3
\* Render calls started in the concurrent specification.
MaxCalls == 3
\* Render calls started in the sequential specification.
MaxSeqCalls == 9
\* Builders constructed in the registration specification.
MaxBuilders == 3
\* Render calls started in the registration specification.
MaxRegCalls == 2

\* ------------------------------------------------------------- characters
Threads == {"t1", "t2"}
MainThread == "t1"

NL == "\n"
SP == " "
COLON == ":"
\* A two-byte character (e-acute) and the four-byte emoji of the level tags.
EACUTE == "U+00E9"
Emoji == {"U+1F913", "U+1F914", "U+1F60B", "U+1F625", "U+1F621"}

Utf8Len(c) == IF c = EACUTE THEN 2 ELSE IF c \in Emoji THEN 4 ELSE 1

RECURSIVE ByteLen(_)
\* str::len: the length of a string in bytes.
ByteLen(s) == IF s = <<>> THEN 0 ELSE Utf8Len(Head(s)) + ByteLen(Tail(s))

\* Sequences over S of length at most n.
SeqsUpTo(S, n) == UNION {[1..k -> S] : k \in 0..n}

\* ----------------------------------------------------------- level table
Levels == {"Trace", "Debug", "Info", "Warn", "Error"}

\* The match with the Error arm a copy of the Warn arm.
level_match_copied(l) ==
    CASE l = "Trace" -> [color |-> "Purple", level |-> <<SP, "U+1F913", SP, "T", SP>>]
      [] l = "Debug" -> [color |-> "Blue",   level |-> <<SP, "U+1F914", SP, "D", SP>>]
      [] l = "Info"  -> [color |-> "Green",  level |-> <<SP, "U+1F60B", SP, "I", SP>>]
      [] l = "Warn"  -> [color |-> "Yellow", level |-> <<SP, "U+1F625", SP, "W", SP>>]
      [] l = "Error" -> [color |-> "Yellow", level |-> <<SP, "U+1F625", SP, "W", SP>>]

\* The match on record.level(): (color, level).
level_match(l) ==
    CASE l = "Trace" -> [color |-> "Purple", level |-> <<SP, "U+1F913", SP, "T", SP>>]
      [] l = "Debug" -> [color |-> "Blue",   level |-> <<SP, "U+1F914", SP, "D", SP>>]
      [] l = "Info"  -> [color |-> "Green",  level |-> <<SP, "U+1F60B", SP, "I", SP>>]
      [] l = "Warn"  -> [color |-> "Yellow", level |-> <<SP, "U+1F625", SP, "W", SP>>]
      [] l = "Error" -> [color |-> "Red",    level |-> <<SP, "U+1F621", SP, "E", SP>>]

\* ------------------------------------------------------- label derivation
\* Index of the first "::" of s at or after i, or 0.
RECURSIVE FindSep(_, _)
FindSep(s, i) ==
    IF i + 1 > Len(s) THEN 0
    ELSE IF s[i] = COLON /\ s[i + 1] = COLON THEN i
    ELSE FindSep(s, i + 1)

RECURSIVE split(_)
\* target.split("::"): the pieces between the non-overlapping matches of
\* "::" found left to right; a string without a match is its only piece.
split(s) ==
    LET i == FindSep(s, 1)
    IN  IF i = 0 THEN <<s>>
        ELSE <<SubSeq(s, 1, i - 1)>> \o split(SubSeq(s, i + 2, Len(s)))

\* module_iter.next(): Some(first piece); split yields at least one piece.
krate_of(pieces) == [some |-> TRUE, val |-> pieces[1]]

\* module_iter.next() for module_iter.last(): the second piece.
path_of_second(pieces) ==
    IF Len(pieces) >= 2 THEN [some |-> TRUE, val |-> pieces[2]]
    ELSE [some |-> FALSE, val |-> <<>>]

\* module_iter.last(), after next() took the first piece.
path_of(pieces) ==
    IF Len(pieces) >= 2 THEN [some |-> TRUE, val |-> pieces[Len(pieces)]]
    ELSE [some |-> FALSE, val |-> <<>>]

unwrap_or_default(o) == IF o.some THEN o.val ELSE <<>>

\* The format string " {}:{} " with the colon in it.
format_target_colon(krate, path) ==
    <<SP>> \o (IF krate.some THEN krate.val ELSE <<>>) \o <<COLON>>
           \o (IF path.some THEN path.val ELSE <<>>) \o <<SP>>

\* format!(" {}{} ", krate.unwrap_or_default(),
\*         path.map(|s| format!(":{}", s)).unwrap_or_default())
format_target(krate, path) ==
    <<SP>> \o unwrap_or_default(krate)
           \o unwrap_or_default([some |-> path.some,
                                 val |-> IF path.some THEN <<COLON>> \o path.val ELSE <<>>])
           \o <<SP>>

label_of(tgt) == format_target(krate_of(split(tgt)), path_of(split(tgt)))

\* ---------------------------------------------------------- line assembly
\* ansi_term::Style built by Style::new().on(..).fg(..).dimmed().bold().
Style(on, fg, bold, dimmed) == [on |-> on, fg |-> fg, bold |-> bold, dimmed |-> dimmed]

\* Style::paint: the text carried with the style it is displayed in.
paint(style, text) == [style |-> style, text |-> text]

\* The decimal digits of n, n < 100.
Digit(d) == CASE d = 0 -> "0" [] d = 1 -> "1" [] d = 2 -> "2" [] d = 3 -> "3"
              [] d = 4 -> "4" [] d = 5 -> "5" [] d = 6 -> "6" [] d = 7 -> "7"
              [] d = 8 -> "8" [] d = 9 -> "9"
Digits(n) == IF n < 10 THEN <<Digit(n)>> ELSE <<Digit(n \div 10), Digit(n % 10)>>

\* format!(" {:.2} ", time.as_secs() as f64 + f64::from(time.subsec_millis()) / 1000f64)
\* for an elapsed time of ms milliseconds, ms a multiple of 10 below 100 s.
format_elapsed(ms) ==
    <<SP>> \o Digits(ms \div 1000) \o <<".">>
           \o <<Digit((ms % 1000) \div 100), Digit((ms % 100) \div 10)>> \o <<SP>>

\* The number of characters of s (chars().count()): one per element.
CharCount(s) == Len(s)

\* format!("{: <width$}", target, width = max_width): left-aligned, filled
\* with spaces up to width characters, never truncated.
pad_left_aligned(s, width) ==
    IF CharCount(s) >= width THEN s
    ELSE s \o [i \in 1..(width - CharCount(s)) |-> SP]

\* Text displayed as it is: one unstyled cell per character.
NoStyle == Style("None", "None", FALSE, FALSE)
plain(s) == [i \in 1..Len(s) |-> paint(NoStyle, <<s[i]>>)]

\* str::replacen("\n", to, 1): the first line break only.
replace_first(s, to) ==
    IF \E i \in 1..Len(s) : s[i] = NL
    THEN LET i == CHOOSE i \in 1..Len(s) : s[i] = NL /\ \A j \in 1..(i - 1) : s[j] # NL
         IN  plain(SubSeq(s, 1, i - 1)) \o to \o plain(SubSeq(s, i + 1, Len(s)))
    ELSE plain(s)

RECURSIVE replace(_, _)
\* str::replace("\n", to): every line break of s replaced by the cells of to.
replace(s, to) ==
    IF s = <<>> THEN <<>>
    ELSE IF Head(s) = NL THEN to \o replace(Tail(s), to)
    ELSE plain(<<Head(s)>>) \o replace(Tail(s), to)

\* format!("\n{} ", Style::new().on(color).fg(Color::White).paint(level))
continuation(lm) ==
    plain(<<NL>>) \o <<paint(Style(lm.color, "White", FALSE, FALSE), lm.level)>> \o plain(<<SP>>)

\* The arguments of writeln!: the cells of the line, the line break last.
line_of(lvl, ms, tgt, width, args) ==
    LET lm == level_match(lvl)
    IN  <<paint(Style(lm.color, "Black", FALSE, FALSE), lm.level),
          paint(Style("White", "Black", TRUE, TRUE), format_elapsed(ms)),
          paint(Style("None", "None", TRUE, FALSE), pad_left_aligned(tgt, width))>>
        \o plain(<<">", SP>>)
        \o replace(args, continuation(lm))
        \o plain(<<NL>>)

\* ------------------------------------------------------------------ state
VARIABLES
    MAX_MODULE_WIDTH,      \* static AtomicUsize
    SINCE_WIDTH_INCREASE,  \* static AtomicUsize
    pc,                    \* per thread: the next step of its format call
    record,                \* per thread: the record being formatted
    time,                  \* per thread: start_time.elapsed(), in ms
    target,                \* per thread: the label (the shadowing `target`)
    max_width,             \* per thread: the local max_width
    result,                \* per thread: the io::Result the call returned
    f,                     \* per thread: what the call's write left in the sink
    sink_res,              \* per thread: what the sink answered to the write
    sink_writes,           \* per thread: writes the sink received in the call
    ncalls,                \* format calls started so far
    logger,                \* the global logger: 0 (unset) or a builder's id
    filter,                \* the directives the global logger was built with
    nbuilders,             \* builders (format closures) constructed so far
    held,                  \* builders returned to the caller, not yet consumed
    ret,                   \* the last entry-point call and what it returned
    attempts,              \* registration attempts so far
    at_start,              \* history: per thread, the statics when its call began
    seen,                  \* history: label lengths of the calls begun so far
    grown,                 \* history: the last growing call and the calls since
    alone,                 \* history: per thread, no other call ran during its call
    quiet                  \* history: the increments and the shrinks since the
                           \* last store of the growth branch, and the branch
                           \* each call took

vars == <<MAX_MODULE_WIDTH, SINCE_WIDTH_INCREASE, pc, record, time, target,
          max_width, result, f, sink_res, sink_writes, ncalls, logger, filter,
          nbuilders, held, ret, attempts, at_start, seen, grown, alone, quiet>>
regVars == <<logger, filter, nbuilders, held, ret, attempts>>
histVars == <<at_start, seen, grown, alone>>
sinkVars == <<result, f, sink_res, sink_writes>>

NoRecord == [level |-> "Info", target |-> <<>>, args |-> <<>>]
NoRet == [fn |-> "none", res |-> "none", was_set |-> FALSE, attempt |-> 0, id |-> 0,
          calls |-> 0]

\* Both statics are ATOMIC_USIZE_INIT (0) and no format call has begun.
Fresh ==
    /\ MAX_MODULE_WIDTH = 0
    /\ SINCE_WIDTH_INCREASE = 0
    /\ pc = [t \in Threads |-> "idle"]
    /\ record = [t \in Threads |-> NoRecord]
    /\ time = [t \in Threads |-> 0]
    /\ target = [t \in Threads |-> <<>>]
    /\ max_width = [t \in Threads |-> 0]
    /\ result = [t \in Threads |-> "none"]
    /\ f = [t \in Threads |-> <<>>]
    /\ sink_res = [t \in Threads |-> "none"]
    /\ sink_writes = [t \in Threads |-> 0]
    /\ ncalls = 0
    /\ at_start = [t \in Threads |-> [width |-> 0, since |-> 0]]
    /\ seen = {}
    /\ grown = [any |-> FALSE, to |-> 0, after |-> 0, rise_after |-> 0]
    /\ alone = [t \in Threads |-> TRUE]
    /\ quiet = [incs |-> 0, own |-> [t \in Threads |-> FALSE], grew |-> FALSE,
                seq |-> TRUE, at_shrink |-> -1, shrunk |-> FALSE,
                prior |-> [t \in Threads |-> FALSE],
                took |-> [t \in Threads |-> "none"]]

\* The state of a process that has called nothing yet.
Init ==
    /\ Fresh
    /\ logger = 0
    /\ filter = "unset"
    /\ nbuilders = 0
    /\ held = {}
    /\ ret = NoRet
    /\ attempts = 0

\* The state right after the program's first call, init(), has returned.
Installed ==
    /\ Fresh
    /\ logger = 1
    /\ filter = "default"
    /\ nbuilders = 1
    /\ held = {}
    /\ ret = [fn |-> "init", res |-> "Ok", was_set |-> FALSE, attempt |-> 1, id |-> 1,
              calls |-> 0]
    /\ attempts = 1

\* ----------------------------------------------------- the format closure
\* Lines 118-136: the record's target, the elapsed time, the label.  The
\* history notes the statics at this moment and the label's length.
format_start(t, r, now) ==
    /\ pc[t] = "idle"
    /\ nbuilders > 0
    /\ record' = [record EXCEPT ![t] = r]
    /\ time' = [time EXCEPT ![t] = now]
    /\ target' = [target EXCEPT ![t] = label_of(r.target)]
    /\ max_width' = [max_width EXCEPT ![t] = 0]
    /\ result' = [result EXCEPT ![t] = "none"]
    /\ f' = [f EXCEPT ![t] = <<>>]
    /\ sink_res' = [sink_res EXCEPT ![t] = "none"]
    /\ sink_writes' = [sink_writes EXCEPT ![t] = 0]
    /\ ncalls' = ncalls + 1
    /\ pc' = [pc EXCEPT ![t] = "fetch_add"]
    /\ at_start' = [at_start EXCEPT ![t] = [width |-> MAX_MODULE_WIDTH,
                                            since |-> SINCE_WIDTH_INCREASE]]
    /\ seen' = seen \cup {ByteLen(label_of(r.target))}
    /\ grown' = [any |-> grown.any \/ ByteLen(label_of(r.target)) >= MAX_MODULE_WIDTH,
                 to |-> IF ByteLen(label_of(r.target)) >= MAX_MODULE_WIDTH
                        THEN ByteLen(label_of(r.target)) ELSE grown.to,
                 after |-> IF ByteLen(label_of(r.target)) >= MAX_MODULE_WIDTH
                           THEN 0 ELSE grown.after + 1,
                 rise_after |-> IF ByteLen(label_of(r.target)) > MAX_MODULE_WIDTH
                                THEN 0 ELSE grown.rise_after + 1]
    /\ alone' = [u \in Threads |->
                    IF u = t THEN \A v \in Threads \ {t} : pc[v] = "idle"
                    ELSE alone[u] /\ pc[u] = "idle"]
    /\ quiet' = [quiet EXCEPT !.own[t] = FALSE,
                              !.seq = @ /\ \A v \in Threads \ {t} : pc[v] = "idle",
                              !.prior[t] = quiet.shrunk,
                              !.took[t] = "none"]
    /\ UNCHANGED <<MAX_MODULE_WIDTH, SINCE_WIDTH_INCREASE>>
    /\ UNCHANGED regVars

\* target.len(): the label's length in bytes.
target_len(t) == ByteLen(target[t])

\* Line 140 with < for <=.
fits_strict(width, len) == width < len

\* Line 140 with the comparison turned round.
fits_reversed(width, len) == len <= width

\* Line 140: max_width <= target.len().
fits(width, len) == width <= len

\* Line 144 with 4 for 5.
stale_early(since) == since > 4

\* Line 144: SINCE_WIDTH_INCREASE.load(..) > 5.
stale(since) == since > 5

\* Line 138 with the other static incremented.
fetch_add_other_static(t) ==
    /\ pc[t] = "fetch_add"
    /\ MAX_MODULE_WIDTH' = MAX_MODULE_WIDTH + 1
    /\ pc' = [pc EXCEPT ![t] = "load_max"]
    /\ UNCHANGED <<SINCE_WIDTH_INCREASE, record, time, target, max_width, ncalls>>
    /\ UNCHANGED <<sinkVars, regVars, histVars>>
    /\ UNCHANGED quiet

\* Line 138 with an increment of 2.
fetch_add_two(t) ==
    /\ pc[t] = "fetch_add"
    /\ SINCE_WIDTH_INCREASE' = SINCE_WIDTH_INCREASE + 2
    /\ pc' = [pc EXCEPT ![t] = "load_max"]
    /\ UNCHANGED <<MAX_MODULE_WIDTH, record, time, target, max_width, ncalls>>
    /\ UNCHANGED <<sinkVars, regVars, histVars>>
    /\ quiet' = [quiet EXCEPT !.incs = @ + 1, !.own[t] = TRUE]

\* Line 138: SINCE_WIDTH_INCREASE.fetch_add(1, Ordering::Relaxed).
fetch_add(t) ==
    /\ pc[t] = "fetch_add"
    /\ SINCE_WIDTH_INCREASE' = SINCE_WIDTH_INCREASE + 1
    /\ pc' = [pc EXCEPT ![t] = "load_max"]
    /\ UNCHANGED <<MAX_MODULE_WIDTH, record, time, target, max_width, ncalls>>
    /\ UNCHANGED <<sinkVars, regVars, histVars>>
    /\ quiet' = [quiet EXCEPT !.incs = @ + 1, !.own[t] = TRUE]

\* Lines 139-140: let mut max_width = MAX_MODULE_WIDTH.load(..), and the test.
load_max(t) ==
    /\ pc[t] = "load_max"
    /\ max_width' = [max_width EXCEPT ![t] = MAX_MODULE_WIDTH]
    /\ pc' = [pc EXCEPT ![t] = IF fits(MAX_MODULE_WIDTH, target_len(t))
                               THEN "store_grow" ELSE "load_since"]
    /\ UNCHANGED <<MAX_MODULE_WIDTH, SINCE_WIDTH_INCREASE, record, time, target, ncalls>>
    /\ UNCHANGED <<sinkVars, regVars, histVars>>
    /\ UNCHANGED quiet

\* The history after the store of the growth branch by thread t.
grow_noted(t) ==
    [incs |-> 0, own |-> [u \in Threads |-> FALSE],
     grew |-> target_len(t) > MAX_MODULE_WIDTH,
     seq |-> alone[t], at_shrink |-> -1, shrunk |-> FALSE,
     prior |-> quiet.prior,
     took |-> [quiet.took EXCEPT ![t] = "grow"]]

\* Line 141 without line 142: the static stored, the local left as loaded.
store_grow_shared_only(t) ==
    /\ pc[t] = "store_grow"
    /\ MAX_MODULE_WIDTH' = target_len(t)
    /\ pc' = [pc EXCEPT ![t] = "store_reset"]
    /\ UNCHANGED <<SINCE_WIDTH_INCREASE, record, time, target, max_width, ncalls>>
    /\ UNCHANGED <<sinkVars, regVars, histVars>>
    /\ quiet' = grow_noted(t)

\* Lines 141-142: MAX_MODULE_WIDTH.store(target.len(), ..); max_width = target.len().
store_grow(t) ==
    /\ pc[t] = "store_grow"
    /\ MAX_MODULE_WIDTH' = target_len(t)
    /\ max_width' = [max_width EXCEPT ![t] = target_len(t)]
    /\ pc' = [pc EXCEPT ![t] = "store_reset"]
    /\ UNCHANGED <<SINCE_WIDTH_INCREASE, record, time, target, ncalls>>
    /\ UNCHANGED <<sinkVars, regVars, histVars>>
    /\ quiet' = grow_noted(t)

\* Line 143 left out: the growth branch without the reset.
store_reset_skipped(t) ==
    /\ pc[t] = "store_reset"
    /\ pc' = [pc EXCEPT ![t] = "writeln"]
    /\ UNCHANGED <<MAX_MODULE_WIDTH, SINCE_WIDTH_INCREASE, record, time, target,
                   max_width, ncalls>>
    /\ UNCHANGED <<sinkVars, regVars, histVars>>
    /\ UNCHANGED quiet

\* Line 143: SINCE_WIDTH_INCREASE.store(0, Ordering::Relaxed).
store_reset(t) ==
    /\ pc[t] = "store_reset"
    /\ SINCE_WIDTH_INCREASE' = 0
    /\ pc' = [pc EXCEPT ![t] = "writeln"]
    /\ UNCHANGED <<MAX_MODULE_WIDTH, record, time, target, max_width, ncalls>>
    /\ UNCHANGED <<sinkVars, regVars, histVars>>
    /\ UNCHANGED quiet

\* Line 144: else if SINCE_WIDTH_INCREASE.load(..) > 5.
load_since(t) ==
    /\ pc[t] = "load_since"
    /\ pc' = [pc EXCEPT ![t] = IF stale(SINCE_WIDTH_INCREASE)
                               THEN "store_shrink" ELSE "writeln"]
    /\ UNCHANGED <<MAX_MODULE_WIDTH, SINCE_WIDTH_INCREASE, record, time, target,
                   max_width, ncalls>>
    /\ UNCHANGED <<sinkVars, regVars, histVars>>
    /\ UNCHANGED quiet

\* The history after the store of the shrink branch by thread t.
shrink_noted(t) ==
    [quiet EXCEPT !.at_shrink = IF quiet.grew /\ target_len(t) < MAX_MODULE_WIDTH
                                THEN quiet.incs - (IF quiet.own[t] THEN 1 ELSE 0)
                                ELSE @,
                  !.shrunk = TRUE,
                  !.took[t] = "shrink"]

\* Lines 145-146 followed by a reset of the counter, as in the growth branch.
store_shrink_resets(t) ==
    /\ pc[t] = "store_shrink"
    /\ MAX_MODULE_WIDTH' = target_len(t)
    /\ SINCE_WIDTH_INCREASE' = 0
    /\ max_width' = [max_width EXCEPT ![t] = target_len(t)]
    /\ pc' = [pc EXCEPT ![t] = "writeln"]
    /\ UNCHANGED <<record, time, target, ncalls>>
    /\ UNCHANGED <<sinkVars, regVars, histVars>>
    /\ quiet' = shrink_noted(t)

\* Lines 145-146: MAX_MODULE_WIDTH.store(target.len(), ..); max_width = target.len().
store_shrink(t) ==
    /\ pc[t] = "store_shrink"
    /\ MAX_MODULE_WIDTH' = target_len(t)
    /\ max_width' = [max_width EXCEPT ![t] = target_len(t)]
    /\ pc' = [pc EXCEPT ![t] = "writeln"]
    /\ UNCHANGED <<SINCE_WIDTH_INCREASE, record, time, target, ncalls>>
    /\ UNCHANGED <<sinkVars, regVars, histVars>>
    /\ quiet' = shrink_noted(t)

\* Lines 138-147 run from the statics st with no other call in between: the
\* statics they leave and the local max_width, for a label of len bytes.
serial_call(st, len) ==
    IF st.width <= len
    THEN [width |-> len, since |-> 0, pad |-> len]
    ELSE IF st.since + 1 > 5
         THEN [width |-> len, since |-> st.since + 1, pad |-> len]
         ELSE [width |-> st.width, since |-> st.since + 1, pad |-> st.width]

\* What a write to the formatter can answer: Ok, or an io::Error.
SinkErrors == {"BrokenPipe", "WriteZero"}
SinkAnswers == {"Ok"} \cup SinkErrors

\* Lines 149-172 with the write's answer dropped (let _ = writeln!(..); Ok(())).
writeln_swallowed(t, answer) ==
    /\ pc[t] = "writeln"
    /\ sink_writes' = [sink_writes EXCEPT ![t] = @ + 1]
    /\ sink_res' = [sink_res EXCEPT ![t] = answer]
    /\ f' = [f EXCEPT ![t] = IF answer = "Ok"
                             THEN line_of(record[t].level, time[t], target[t],
                                          max_width[t], record[t].args)
                             ELSE <<>>]
    /\ result' = [result EXCEPT ![t] = "Ok"]
    /\ pc' = [pc EXCEPT ![t] = "idle"]
    /\ UNCHANGED <<MAX_MODULE_WIDTH, SINCE_WIDTH_INCREASE, record, time, target,
                   max_width, ncalls>>
    /\ UNCHANGED <<regVars, histVars>>
    /\ UNCHANGED quiet

\* Lines 149-172 with the statics put back as the call found them when the
\* write fails.
writeln_rolls_back(t, answer) ==
    /\ pc[t] = "writeln"
    /\ sink_writes' = [sink_writes EXCEPT ![t] = @ + 1]
    /\ sink_res' = [sink_res EXCEPT ![t] = answer]
    /\ f' = [f EXCEPT ![t] = IF answer = "Ok"
                             THEN line_of(record[t].level, time[t], target[t],
                                          max_width[t], record[t].args)
                             ELSE <<>>]
    /\ result' = [result EXCEPT ![t] = answer]
    /\ MAX_MODULE_WIDTH' = IF answer = "Ok" THEN MAX_MODULE_WIDTH ELSE at_start[t].width
    /\ SINCE_WIDTH_INCREASE' = IF answer = "Ok" THEN SINCE_WIDTH_INCREASE
                               ELSE at_start[t].since
    /\ pc' = [pc EXCEPT ![t] = "idle"]
    /\ UNCHANGED <<record, time, target, max_width, ncalls>>
    /\ UNCHANGED <<regVars, histVars>>
    /\ UNCHANGED quiet

\* Lines 149-172: writeln!(f, ..) is the closure's value: one write of the
\* whole line, whose answer the closure returns.
writeln(t, answer) ==
    /\ pc[t] = "writeln"
    /\ sink_writes' = [sink_writes EXCEPT ![t] = @ + 1]
    /\ sink_res' = [sink_res EXCEPT ![t] = answer]
    /\ f' = [f EXCEPT ![t] = IF answer = "Ok"
                             THEN line_of(record[t].level, time[t], target[t],
                                          max_width[t], record[t].args)
                             ELSE <<>>]
    /\ result' = [result EXCEPT ![t] = answer]
    /\ pc' = [pc EXCEPT ![t] = "idle"]
    /\ UNCHANGED <<MAX_MODULE_WIDTH, SINCE_WIDTH_INCREASE, record, time, target,
                   max_width, ncalls>>
    /\ UNCHANGED <<regVars, histVars>>
    /\ UNCHANGED quiet

\* The steps of a call after its first.
step(t) ==
    \/ fetch_add(t)
    \/ load_max(t)
    \/ store_grow(t)
    \/ store_reset(t)
    \/ load_since(t)
    \/ store_shrink(t)
    \/ \E answer \in SinkAnswers : writeln(t, answer)

\* --------------------------------------------------------------- inputs
\* Elapsed times read from the clock, in ms.
Clock == {0, 50, 1500}

\* Targets whose labels have the byte lengths 2, 3, 4, 5 and 10.
WidthTargets == {<<>>, <<"a">>, <<EACUTE>>, <<"a", COLON, COLON, "a">>,
                 <<"a", "a", "a", COLON, COLON, "a", "a", "a", "a">>}
WidthRecords == {[level |-> "Info", target |-> tg, args |-> <<"x">>] : tg \in WidthTargets}

\* Targets whose labels have the byte lengths 2, 3 and 5.
ConcTargets == {<<>>, <<"a">>, <<"a", COLON, COLON, "a">>}
ConcRecords == {[level |-> "Info", target |-> tg, args |-> <<"x">>] : tg \in ConcTargets}

\* ------------------------------------------------- concurrent format calls
\* The labels of a program that, before its threads start, has logged from
\* its main thread one record of target "a" and four of the empty target.
WarmLabels == <<3, 2, 2, 2, 2>>

\* The state those calls leave when every write succeeded: the width is 3
\* and the counter 4.
Warmed ==
    /\ MAX_MODULE_WIDTH = WarmLabels[1]
    /\ SINCE_WIDTH_INCREASE = Len(WarmLabels) - 1
    /\ pc = [t \in Threads |-> "idle"]
    /\ record = [t \in Threads |->
                   IF t = MainThread
                   THEN [level |-> "Info", target |-> <<>>, args |-> <<"x">>]
                   ELSE NoRecord]
    /\ time = [t \in Threads |-> 0]
    /\ target = [t \in Threads |-> IF t = MainThread THEN <<SP, SP>> ELSE <<>>]
    /\ max_width = [t \in Threads |-> IF t = MainThread THEN WarmLabels[1] ELSE 0]
    /\ result = [t \in Threads |-> IF t = MainThread THEN "Ok" ELSE "none"]
    /\ f = [t \in Threads |->
              IF t = MainThread
              THEN line_of("Info", 0, <<SP, SP>>, WarmLabels[1], <<"x">>)
              ELSE <<>>]
    /\ sink_res = [t \in Threads |-> IF t = MainThread THEN "Ok" ELSE "none"]
    /\ sink_writes = [t \in Threads |-> IF t = MainThread THEN 1 ELSE 0]
    /\ ncalls = Len(WarmLabels)
    /\ at_start = [t \in Threads |->
                     IF t = MainThread
                     THEN [width |-> WarmLabels[1], since |-> Len(WarmLabels) - 2]
                     ELSE [width |-> 0, since |-> 0]]
    /\ seen = {WarmLabels[i] : i \in 1..Len(WarmLabels)}
    /\ grown = [any |-> TRUE, to |-> WarmLabels[1], after |-> Len(WarmLabels) - 1,
                rise_after |-> Len(WarmLabels) - 1]
    /\ alone = [t \in Threads |-> TRUE]
    /\ quiet = [incs |-> Len(WarmLabels) - 1, own |-> [t \in Threads |-> t = MainThread],
                grew |-> TRUE, seq |-> TRUE, at_shrink |-> -1, shrunk |-> FALSE,
                prior |-> [t \in Threads |-> FALSE],
                took |-> [t \in Threads |-> "none"]]
    /\ logger = 1
    /\ filter = "default"
    /\ nbuilders = 1
    /\ held = {}
    /\ ret = [fn |-> "init", res |-> "Ok", was_set |-> FALSE, attempt |-> 1, id |-> 1,
              calls |-> 0]
    /\ attempts = 1

\* Calls begun since the threads started.
conc_calls == IF ncalls >= Len(WarmLabels) THEN ncalls - Len(WarmLabels) ELSE ncalls

\* Two threads log at the same time, in a program that has just installed
\* the logger or in one that has logged the records above.
Next ==
    \/ /\ conc_calls < MaxCalls
       /\ \E t \in Threads, r \in ConcRecords : format_start(t, r, 0)
    \/ \E t \in Threads : step(t)

Spec == (Installed \/ Warmed) /\ [][Next]_vars

\* ------------------------------------------------- sequential format calls
SeqNext ==
    \/ /\ ncalls < MaxSeqCalls
       /\ \E r \in WidthRecords : format_start(MainThread, r, 0)
    \/ step(MainThread)

SpecSeq == Installed /\ [][SeqNext]_vars

\* ---------------------------------------------------- formatting one record
\* Target paths and messages of every shape up to the bounds.
TargetChars == {"a", COLON, EACUTE}
MsgChars == {"x", NL}
FmtRecords ==
    {[level |-> "Info", target |-> tg, args |-> <<"x", NL, "y">>] :
        tg \in SeqsUpTo(TargetChars, MaxTargetLen)}
    \cup {[level |-> l, target |-> tg, args |-> m] :
            l \in Levels, tg \in {<<>>, <<"a", COLON, COLON, "a">>},
            m \in SeqsUpTo(MsgChars, MaxMsgLen)}

\* The first format call of the process, on any record: with both statics 0
\* it takes the branch of line 140.
FmtNext ==
    \/ /\ ncalls = 0
       /\ \E r \in FmtRecords, now \in Clock : format_start(MainThread, r, now)
    \/ fetch_add(MainThread)
    \/ load_max(MainThread)
    \/ store_grow(MainThread)
    \/ store_reset(MainThread)
    \/ \E answer \in SinkAnswers : writeln(MainThread, answer)

SpecFmt == Installed /\ [][FmtNext]_vars

\* ------------------------------------------------------------ registration
\* ::std::env::var(name): Err when the variable is unset, else its value.
EnvValues == {"unset", "info"}

\* Builder::try_init of env_logger, as lines 41-42 document it: the global
\* logger is set by the first attempt only, later attempts return an error.
\* The value: what the call returns and the global logger after it.
builder_try_init(id, directives) ==
    IF logger = 0
    THEN [res |-> "Ok", logger |-> id, filter |-> directives]
    ELSE [res |-> "Err", logger |-> logger, filter |-> filter]

\* Lines 112-176: a new Builder with the format closure; always Ok(builder).
formatted_builder_result == "Ok"

\* Lines 113-116 with the statics of lines 35-36 set to 0 again.
construct_resets ==
    /\ nbuilders' = nbuilders + 1
    /\ MAX_MODULE_WIDTH' = 0
    /\ SINCE_WIDTH_INCREASE' = 0

\* Lines 113-116: Builder::new() and builder.format(closure).  The closure
\* refers to the statics of lines 35-36; constructing it stores nothing.
construct ==
    /\ nbuilders' = nbuilders + 1
    /\ UNCHANGED <<MAX_MODULE_WIDTH, SINCE_WIDTH_INCREASE>>

\* formatted_builder() called by the program, which keeps the builder.
formatted_builder ==
    /\ nbuilders < MaxBuilders
    /\ construct
    /\ held' = IF formatted_builder_result = "Ok" THEN held \cup {nbuilders + 1} ELSE held
    /\ ret' = [fn |-> "formatted_builder", res |-> formatted_builder_result,
               was_set |-> logger # 0, attempt |-> 0, id |-> nbuilders + 1,
               calls |-> ncalls]
    /\ UNCHANGED <<logger, filter, attempts>>

\* The program calls try_init() on a builder it got from formatted_builder().
held_try_init(b) ==
    /\ b \in held
    /\ LET r == builder_try_init(b, "default")
       IN  /\ logger' = r.logger
           /\ filter' = r.filter
           /\ ret' = [fn |-> "Builder::try_init", res |-> r.res,
                      was_set |-> logger # 0, attempt |-> attempts + 1, id |-> b,
                      calls |-> ncalls]
    /\ held' = held \ {b}
    /\ attempts' = attempts + 1
    /\ UNCHANGED nbuilders

\* Lines 89-97 with the value of builder.try_init() dropped.
try_init_custom_env_ignoring(id, env) ==
    IF logger = 0
    THEN [res |-> "Ok", logger |-> id, filter |-> IF env = "unset" THEN "default" ELSE env]
    ELSE [res |-> "Ok", logger |-> logger, filter |-> filter]

\* Lines 89-97: formatted_builder()?, builder.parse(&s) when the variable is
\* set, builder.try_init().
try_init_custom_env_result(id, env) ==
    IF formatted_builder_result # "Ok"
    THEN [res |-> "Err", logger |-> logger, filter |-> filter]
    ELSE builder_try_init(id, IF env = "unset" THEN "default" ELSE env)

\* Lines 49 and 76: Result::unwrap.
unwrap(res) == IF res = "Ok" THEN "Ok" ELSE "panic"

\* A call of one of the four entry points: fn names it, env is what
\* ::std::env::var answers for the variable it reads.
entry(fn, env) ==
    /\ nbuilders < MaxBuilders
    /\ LET r == try_init_custom_env_result(nbuilders + 1, env)
       IN  /\ logger' = r.logger
           /\ filter' = r.filter
           /\ ret' = [fn |-> fn,
                      res |-> IF fn \in {"init", "init_custom_env"}
                              THEN unwrap(r.res) ELSE r.res,
                      was_set |-> logger # 0, attempt |-> attempts + 1,
                      id |-> nbuilders + 1, calls |-> ncalls]
    /\ construct
    /\ attempts' = attempts + 1
    /\ UNCHANGED held

\* Lines 48-50.
init == \E env \in EnvValues : entry("init", env)
\* Lines 61-63.
try_init == \E env \in EnvValues : entry("try_init", env)
\* Lines 75-77.
init_custom_env == \E env \in EnvValues : entry("init_custom_env", env)
\* Lines 89-97.
try_init_custom_env == \E env \in EnvValues : entry("try_init_custom_env", env)

renderVars == <<pc, record, time, target, max_width, result, f, sink_res,
                sink_writes, ncalls, at_start, seen, grown, alone, quiet>>
callVars == <<MAX_MODULE_WIDTH, SINCE_WIDTH_INCREASE, renderVars>>

\* Targets whose labels have the byte lengths 3 and 5.
RegRecords == {[level |-> "Info", target |-> tg, args |-> <<"x">>] :
                  tg \in {<<"a">>, <<"a", COLON, COLON, "a">>}}

\* The entry points in any order, and format calls one after the other
\* once a format closure exists; so few calls never reach line 145.
RegNext ==
    \/ init /\ UNCHANGED renderVars
    \/ try_init /\ UNCHANGED renderVars
    \/ init_custom_env /\ UNCHANGED renderVars
    \/ try_init_custom_env /\ UNCHANGED renderVars
    \/ formatted_builder /\ UNCHANGED renderVars
    \/ \E b \in held : held_try_init(b) /\ UNCHANGED callVars
    \/ /\ ncalls < MaxRegCalls
       /\ \E r \in RegRecords : format_start(MainThread, r, 0)
    \/ fetch_add(MainThread)
    \/ load_max(MainThread)
    \/ store_grow(MainThread)
    \/ store_reset(MainThread)
    \/ load_since(MainThread)
    \/ \E answer \in SinkAnswers : writeln(MainThread, answer)

SpecReg == Init /\ [][RegNext]_vars

\* ============================================================== properties
\* A format call of the main thread has returned.
Returned == pc[MainThread] = "idle" /\ ncalls > 0

\* C1 (SpecSeq).  Growth: in a sequence of format calls made one after the
\* other, a call whose label is at least as long as MAX_MODULE_WIDTH was when
\* the call began leaves MAX_MODULE_WIDTH at the label's length and
\* SINCE_WIDTH_INCREASE at 0.
C1_Growth ==
    (Returned /\ target_len(MainThread) >= at_start[MainThread].width)
        => /\ MAX_MODULE_WIDTH = target_len(MainThread)
           /\ SINCE_WIDTH_INCREASE = 0

\* The seventh call, with a label of 10 after a width of 3, has returned.
C1_Witness ==
    /\ Returned
    /\ ncalls = 7
    /\ at_start[MainThread].width = 3
    /\ target_len(MainThread) = 10
    /\ MAX_MODULE_WIDTH = 10
    /\ SINCE_WIDTH_INCREASE = 0

\* C2 (SpecSeq).  Shrink: after a call that grew the width to W, while every
\* following call has a label shorter than the width it finds, the width stays
\* W when the first to the fifth such call return, and when the sixth returns
\* the width is the sixth call's label length.
C2_Shrink ==
    (Returned /\ grown.any)
        => /\ grown.after \in 1..5 => MAX_MODULE_WIDTH = grown.to
           /\ grown.after = 6 => MAX_MODULE_WIDTH = target_len(MainThread)

\* A label of 10 grew the width; the sixth shorter call since, of length 3,
\* has returned and the width is 3.
C2_Witness ==
    /\ Returned
    /\ grown.any /\ grown.to = 10 /\ grown.after = 6
    /\ target_len(MainThread) = 3
    /\ MAX_MODULE_WIDTH = 3

\* C3 (SpecSeq).  When a format call returns, MAX_MODULE_WIDTH is at least
\* the length of the label that call rendered, whichever branch it took.
C3_WidthCoversLabel ==
    Returned => MAX_MODULE_WIDTH >= target_len(MainThread)

\* The sixth call since the width grew to 5 found the width 5 and, with a
\* label of 2, took the shrink branch: the width it leaves is 2.
C3_Witness ==
    /\ Returned
    /\ grown.to = 5 /\ grown.after = 6
    /\ at_start[MainThread].width = 5
    /\ target_len(MainThread) = 2
    /\ MAX_MODULE_WIDTH = 2

\* C4 (Spec).  In every interleaving of format calls, MAX_MODULE_WIDTH is 0
\* or the label length of a call that has begun; it never exceeds the longest
\* label length seen so far.
C4_WidthIsSeenLength ==
    /\ MAX_MODULE_WIDTH = 0 \/ MAX_MODULE_WIDTH \in seen
    /\ MAX_MODULE_WIDTH > 0 => \E n \in seen : MAX_MODULE_WIDTH <= n

\* Two calls are in flight with labels of different lengths, and the width
\* is the shorter one although the longer one was stored before.
C4_Witness ==
    /\ pc["t1"] = "store_reset" /\ pc["t2"] = "store_reset"
    /\ target_len("t1") = 5 /\ target_len("t2") = 2
    /\ MAX_MODULE_WIDTH = 2

\* C5 (SpecFmt).  The format call returns an error exactly when the write to
\* the sink answers one, and returns that error; the sink receives one write
\* per call, and nothing else in the call (an empty target, an empty message,
\* any level) yields an error.
C5_ErrorIsSinkError ==
    /\ sink_writes[MainThread] <= 1
    /\ pc[MainThread] # "idle" => result[MainThread] = "none" /\ sink_writes[MainThread] = 0
    /\ Returned => /\ sink_writes[MainThread] = 1
                   /\ result[MainThread] = sink_res[MainThread]
                   /\ result[MainThread] \in SinkErrors <=> sink_res[MainThread] # "Ok"

\* A record with an empty target and an empty message met a failing sink.
C5_Witness ==
    /\ Returned
    /\ record[MainThread].target = <<>>
    /\ record[MainThread].args = <<>>
    /\ record[MainThread].level = "Error"
    /\ sink_res[MainThread] = "BrokenPipe"
    /\ result[MainThread] = "BrokenPipe"

\* The registration attempts: the entry points that try to set the logger.
InitFns == {"init", "init_custom_env"}
TryFns == {"try_init", "try_init_custom_env", "Builder::try_init"}

\* What the last registration attempt returned, given the attempts before it.
C6_LastAttempt ==
    ret.attempt >= 1
        => /\ ret.attempt = 1 => ret.res = "Ok" /\ logger = ret.id
           /\ ret.attempt > 1 => ret.res # "Ok" /\ logger \notin {0, ret.id}
           /\ ret.fn \in InitFns => (ret.res = "panic" <=> ret.was_set)
           /\ ret.fn \in InitFns => ret.res \in {"Ok", "panic"}
           /\ ret.fn \in TryFns => (ret.res = "Err" <=> ret.was_set)
           /\ ret.fn \in TryFns => ret.res \in {"Ok", "Err"}

\* C6 (SpecReg).  The global logger is registered at most once: the first
\* registration attempt succeeds, every later one fails (try_init and
\* try_init_custom_env return an error, init and init_custom_env panic exactly
\* then), and once a logger is installed no attempt replaces it.
C6_RegisteredOnce ==
    /\ []C6_LastAttempt
    /\ [][logger # 0 => logger' = logger /\ filter' = filter]_vars

\* init() was the second attempt and panicked; the first logger is in place.
C6_Witness ==
    /\ ret.fn = "init" /\ ret.attempt = 2 /\ ret.res = "panic"
    /\ logger = 1

\* C7 (SpecReg).  formatted_builder returns an error when a global logger has
\* already been set, and Ok with a builder otherwise.
C7_FormattedBuilderErrs ==
    ret.fn = "formatted_builder" => (ret.res = "Err" <=> ret.was_set)

\* The "::" of a target path: the places where two colons stand together,
\* and among them the separators, found from the left without overlap.
Seps(tg) == {i \in 1..(Len(tg) - 1) : tg[i] = COLON /\ tg[i + 1] = COLON}
IsSeparators(tg, C) == \A p \in Seps(tg) : p \in C <=> (p - 1) \notin C
Least(S) == CHOOSE x \in S : \A y \in S : x <= y
Greatest(S) == CHOOSE x \in S : \A y \in S : y <= x

\* The format call of the main thread has derived its label.
Labelled == ncalls > 0

\* C8 (SpecFmt).  For a target path of two or more segments the label is a
\* space, the first segment, a colon, the last segment, a space: the middle
\* segments are dropped, and the label is 3 longer than the two segments.
C8_LabelFirstLast ==
    LET tg == record[MainThread].target
        lbl == target[MainThread]
    IN  (Labelled /\ Seps(tg) # {})
            => \E C \in SUBSET Seps(tg) :
                  /\ C # {}
                  /\ IsSeparators(tg, C)
                  /\ LET first == SubSeq(tg, 1, Least(C) - 1)
                         last == SubSeq(tg, Greatest(C) + 2, Len(tg))
                     IN  /\ lbl = <<SP>> \o first \o <<COLON>> \o last \o <<SP>>
                         /\ Len(lbl) = Len(first) + Len(last) + 3
                         /\ ByteLen(lbl) = ByteLen(first) + ByteLen(last) + 3

\* The target a::<e-acute>::a gave the label " a:a ".
C8_Witness ==
    /\ Labelled
    /\ record[MainThread].target = <<"a", COLON, COLON, EACUTE, COLON, COLON, "a">>
    /\ target[MainThread] = <<SP, "a", COLON, "a", SP>>

\* C9 (SpecFmt).  For a target path of one segment the label is the segment
\* between two spaces, with no colon added; for the empty target path it is
\* two spaces.
C9_LabelOneSegment ==
    LET tg == record[MainThread].target
        lbl == target[MainThread]
    IN  /\ (Labelled /\ Seps(tg) = {}) => lbl = <<SP>> \o tg \o <<SP>>
        /\ (Labelled /\ tg = <<>>) => lbl = <<SP, SP>>

\* The empty target gave the label of two spaces, and the call has gone on.
C9_Witness ==
    /\ Labelled
    /\ pc[MainThread] = "writeln"
    /\ record[MainThread].target = <<>>
    /\ target[MainThread] = <<SP, SP>>

\* A cell that is a line break.
IsBreak(cell) == cell = paint(NoStyle, <<NL>>)

RECURSIVE without_margin(_)
\* The characters of the message part of a line, the two cells after each
\* line break (the margin of a continuation line) left out.
without_margin(cells) ==
    IF cells = <<>> THEN <<>>
    ELSE IF IsBreak(Head(cells))
         THEN <<NL>> \o without_margin(SubSeq(cells, 4, Len(cells)))
         ELSE Head(cells).text \o without_margin(Tail(cells))

\* C10 (SpecFmt).  For a message with k line breaks the line written has
\* k + 1 line breaks, the last one ending it; each line break of the message
\* is followed at once by the record's level tag, on the level's colour and
\* in white, and one space; the text between the line breaks is unchanged.
C10_Continuation ==
    LET out == f[MainThread]
        msg == record[MainThread].args
        k == Cardinality({i \in 1..Len(msg) : msg[i] = NL})
        breaks == {i \in 1..Len(out) : IsBreak(out[i])}
    IN  (Returned /\ result[MainThread] = "Ok")
            => /\ Cardinality(breaks) = k + 1
               /\ Len(out) \in breaks
               /\ \A i \in breaks \ {Len(out)} :
                     /\ out[i + 1].text = out[1].text
                     /\ out[i + 1].style.on = out[1].style.on
                     /\ out[i + 1].style.fg = "White"
                     /\ out[i + 2] = paint(NoStyle, <<SP>>)
               /\ out[1].text = level_match(record[MainThread].level).level
               /\ without_margin(SubSeq(out, 6, Len(out) - 1)) = msg

\* A Warn record whose message is a line break, x, a line break was written.
C10_Witness ==
    /\ Returned
    /\ result[MainThread] = "Ok"
    /\ record[MainThread].level = "Warn"
    /\ record[MainThread].args = <<NL, "x", NL>>
    /\ Len(f[MainThread]) = 5 + 7 + 1

\* The table of levels as the documentation gives it: colour, emoji, letter.
LevelTable ==
    {<<"Trace", "Purple", "U+1F913", "T">>, <<"Debug", "Blue", "U+1F914", "D">>,
     <<"Info", "Green", "U+1F60B", "I">>, <<"Warn", "Yellow", "U+1F625", "W">>,
     <<"Error", "Red", "U+1F621", "E">>}

\* C11 (SpecFmt).  The line of a record of level L starts with the tag and
\* the colour the table gives for L: the table has a row for each of the five
\* levels, no two rows share a tag or a colour, and the tag of every
\* continuation line is the tag of the first line.
C11_LevelTable ==
    LET out == f[MainThread]
        lvl == record[MainThread].level
    IN  /\ \A l \in Levels : \E row \in LevelTable : row[1] = l
        /\ \A r1, r2 \in LevelTable :
              r1 # r2 => r1[1] # r2[1] /\ r1[2] # r2[2] /\ r1[3] # r2[3] /\ r1[4] # r2[4]
        /\ (Returned /\ result[MainThread] = "Ok")
              => \E row \in LevelTable :
                    /\ row[1] = lvl
                    /\ out[1].style.on = row[2]
                    /\ out[1].style.fg = "Black"
                    /\ out[1].text = <<SP, row[3], SP, row[4], SP>>
                    /\ \A i \in 1..(Len(out) - 1) :
                          IsBreak(out[i]) => /\ out[i + 1].text = <<SP, row[3], SP, row[4], SP>>
                                             /\ out[i + 1].style.on = row[2]

\* An Error record of two lines was written: red, with the angry face.
C11_Witness ==
    /\ Returned
    /\ result[MainThread] = "Ok"
    /\ record[MainThread].level = "Error"
    /\ record[MainThread].args = <<"x", NL, "x">>
    /\ f[MainThread][1] = paint(Style("Red", "Black", FALSE, FALSE),
                                <<SP, "U+1F621", SP, "E", SP>>)
    /\ f[MainThread][8] = paint(Style("Red", "White", FALSE, FALSE),
                                <<SP, "U+1F621", SP, "E", SP>>)

\* Both threads have made one call each in a process that made no other.
OneCallEach ==
    /\ ncalls = 2
    /\ \A t \in Threads : pc[t] = "idle" /\ result[t] # "none"

\* What the two calls leave when run one after the other, a first.
serial_pair(a, b) ==
    LET s1 == serial_call([width |-> 0, since |-> 0], target_len(a))
        s2 == serial_call(s1, target_len(b))
    IN  [width |-> s2.width, since |-> s2.since, pad_a |-> s1.pad, pad_b |-> s2.pad]

\* C12 as stated (Spec).  The heuristic takes effect atomically per call:
\* what concurrent calls leave in the statics, and the padding width each
\* used, are those of the same calls in some serial order.
C12_Serializable ==
    OneCallEach
        => \E a, b \in Threads :
              /\ a # b
              /\ MAX_MODULE_WIDTH = serial_pair(a, b).width
              /\ SINCE_WIDTH_INCREASE = serial_pair(a, b).since
              /\ max_width[a] = serial_pair(a, b).pad_a
              /\ max_width[b] = serial_pair(a, b).pad_b

\* C12 as amended (Spec).  A call during which no other call is in progress
\* takes effect as one step: when it reaches its write, the statics and its
\* padding width are those the heuristic gives from the statics it found.
C12_AloneIsAtomic ==
    \A t \in Threads :
        (pc[t] = "writeln" /\ alone[t])
            => LET r == serial_call(at_start[t], target_len(t))
               IN  /\ MAX_MODULE_WIDTH = r.width
                   /\ SINCE_WIDTH_INCREASE = r.since
                   /\ max_width[t] = r.pad

\* The second thread, alone, found the width 3 and the counter 5 and shrank
\* the width to 2.
C12_Witness ==
    /\ pc["t2"] = "writeln" /\ alone["t2"]
    /\ at_start["t2"] = [width |-> 3, since |-> 5]
    /\ target_len("t2") = 2
    /\ MAX_MODULE_WIDTH = 2 /\ SINCE_WIDTH_INCREASE = 6 /\ max_width["t2"] = 2

\* A call has lowered the width by the shrink branch since the last store of
\* the growth branch, and that store had raised the width.
ShrunkAfterGrowth == quiet.at_shrink >= 0

\* C13 as stated (Spec).  In every interleaving, between the store by which a
\* call G raised the width and the store by which a later call S lowered it
\* by the shrink branch, with no growth between, at least 5 other calls
\* incremented the counter.
C13_QuietPeriod ==
    ShrunkAfterGrowth => quiet.at_shrink >= 5

\* C13 as amended (Spec).  The same, for calls of which no two overlap from
\* the start of G on.
C13_QuietPeriodSequential ==
    (ShrunkAfterGrowth /\ quiet.seq) => quiet.at_shrink >= 5

\* Calls that followed one another: the width was raised, exactly five other
\* calls incremented the counter, and the next call has just shrunk the width.
C13_Witness ==
    /\ ShrunkAfterGrowth /\ quiet.seq
    /\ quiet.at_shrink = 5
    /\ \E t \in Threads : pc[t] = "writeln" /\ MAX_MODULE_WIDTH = target_len(t)
                          /\ at_start[t].width > target_len(t)

\* C14 (SpecSeq).  The shrink branch leaves SINCE_WIDTH_INCREASE as the
\* increment left it, above 5; and once a call has shrunk the width, every
\* following call whose label is strictly shorter than the width it finds
\* shrinks the width again at once, while no call takes the growth branch.
C14_ShrinkKeepsCounter ==
    Returned =>
        /\ quiet.took[MainThread] = "shrink"
               => /\ SINCE_WIDTH_INCREASE = at_start[MainThread].since + 1
                  /\ SINCE_WIDTH_INCREASE > 5
        /\ (quiet.prior[MainThread]
               /\ target_len(MainThread) < at_start[MainThread].width)
               => /\ quiet.took[MainThread] = "shrink"
                  /\ MAX_MODULE_WIDTH = target_len(MainThread)

\* The call after the one that shrank the width to 3 found the counter 6
\* and, with a label of 2, has shrunk the width to 2.
C14_Witness ==
    /\ Returned
    /\ quiet.prior[MainThread] /\ quiet.took[MainThread] = "shrink"
    /\ at_start[MainThread] = [width |-> 3, since |-> 6]
    /\ target_len(MainThread) = 2
    /\ MAX_MODULE_WIDTH = 2 /\ SINCE_WIDTH_INCREASE = 7

\* C15 as stated (SpecSeq).  In a sequence of format calls made one after the
\* other, when a call returns SINCE_WIDTH_INCREASE is the number of calls made
\* since the last call that strictly increased MAX_MODULE_WIDTH.
C15_SinceLastIncrease ==
    Returned => SINCE_WIDTH_INCREASE = grown.rise_after

\* C15 as amended (SpecSeq).  When a call returns SINCE_WIDTH_INCREASE is the
\* number of calls made since the last call that took the growth branch, which
\* a label as long as the width takes too, leaving the width as it was.
C15_SinceLastGrowthBranch ==
    Returned => SINCE_WIDTH_INCREASE = grown.after

\* A label as long as the width reset the counter two calls after the width
\* rose to 5; three shorter calls have returned since.
C15_Witness ==
    /\ Returned
    /\ grown.to = 5 /\ MAX_MODULE_WIDTH = 5
    /\ grown.after = 3 /\ grown.rise_after = 5
    /\ SINCE_WIDTH_INCREASE = 3

\* C16 (Spec).  In every interleaving of format calls, the width a call pads
\* its label to is at least the label's length, so the padded label begins
\* with the whole label; and a call during which no other call is in progress
\* pads to the MAX_MODULE_WIDTH it leaves.
C16_PaddingCoversLabel ==
    \A t \in Threads :
        pc[t] = "writeln"
            => /\ max_width[t] >= target_len(t)
               /\ LET padded == pad_left_aligned(target[t], max_width[t])
                  IN  /\ Len(padded) >= Len(target[t])
                      /\ SubSeq(padded, 1, Len(target[t])) = target[t]
               /\ alone[t] => max_width[t] = MAX_MODULE_WIDTH

\* A call with a label of 2 pads it to the width 3 it loaded, while a call
\* in progress at the same time has stored the width 5.
C16_Witness ==
    /\ pc["t1"] = "writeln" /\ ~alone["t1"]
    /\ target_len("t1") = 2 /\ max_width["t1"] = 3
    /\ MAX_MODULE_WIDTH = 5

\* C17 (SpecSeq).  The statics are updated before the sink is written and
\* whatever the write answers: when the call reaches its write, and when it
\* has returned with Ok or with an error, MAX_MODULE_WIDTH and
\* SINCE_WIDTH_INCREASE are what lines 138-147 give from the statics the call
\* found and its label's length.
C17_StateWhateverTheWrite ==
    LET r == serial_call(at_start[MainThread], target_len(MainThread))
    IN  /\ pc[MainThread] = "writeln"
               => /\ sink_writes[MainThread] = 0
                  /\ MAX_MODULE_WIDTH = r.width
                  /\ SINCE_WIDTH_INCREASE = r.since
        /\ \A answer \in SinkAnswers :
               (Returned /\ result[MainThread] = answer)
                   => /\ MAX_MODULE_WIDTH = r.width
                      /\ SINCE_WIDTH_INCREASE = r.since

\* A call that found the width 3 and the counter 2 has returned an error
\* from the sink, and its label of 10 has changed the statics to 10 and 0.
C17_Witness ==
    /\ Returned
    /\ result[MainThread] \in SinkErrors /\ f[MainThread] = <<>>
    /\ at_start[MainThread] = [width |-> 3, since |-> 2]
    /\ target_len(MainThread) = 10
    /\ MAX_MODULE_WIDTH = 10 /\ SINCE_WIDTH_INCREASE = 0

\* C18 as stated (SpecReg).  The statics live as long as a formatter: when a
\* formatter is constructed, MAX_MODULE_WIDTH and SINCE_WIDTH_INCREASE are
\* both 0, whatever format calls were made before in the process.
C18_FreshOnConstruction ==
    [][nbuilders' # nbuilders
          => MAX_MODULE_WIDTH' = 0 /\ SINCE_WIDTH_INCREASE' = 0]_vars

\* C18 as amended (SpecReg).  The statics live as long as the process:
\* constructing a formatter, by formatted_builder or by an entry point,
\* leaves MAX_MODULE_WIDTH and SINCE_WIDTH_INCREASE as the format calls made
\* before left them, and they are 0 only while no format call has begun.
C18_ProcessWide ==
    /\ [][nbuilders' # nbuilders
            => /\ MAX_MODULE_WIDTH' = MAX_MODULE_WIDTH
               /\ SINCE_WIDTH_INCREASE' = SINCE_WIDTH_INCREASE]_vars
    /\ [](ncalls = 0 => MAX_MODULE_WIDTH = 0 /\ SINCE_WIDTH_INCREASE = 0)

\* formatted_builder() has returned a third formatter after two format
\* calls, the second shorter than the first: the width is 5 and the counter 1.
C18_Witness ==
    /\ ret.fn = "formatted_builder" /\ ret.id = 3 /\ ret.calls = 2
    /\ Returned /\ ncalls = 2
    /\ MAX_MODULE_WIDTH = 5 /\ SINCE_WIDTH_INCREASE = 1

\* C19 (SpecSeq).  The length the width heuristic works with is the label's
\* number of characters, also for a label with a character of more than one
\* byte: when a call that took the growth or the shrink branch returns,
\* MAX_MODULE_WIDTH is the character count of its label.
C19_WidthIsCharCount ==
    (Returned /\ quiet.took[MainThread] \in {"grow", "shrink"})
        => MAX_MODULE_WIDTH = CharCount(target[MainThread])

====
